---- MODULE Spec2Model ----
(***************************************************************************)
(* Model of the Apple TV remote backend (backend/app): the websocket       *)
(* session manager (api/websocket.py), the device registry and pairing     *)
(* orchestrator (core/atv_manager.py), the credential store                *)
(* (db/database.py) and the now-playing listener (core/now_playing.py).    *)
(*                                                                         *)
(* The provider (pyatv) is the environment: a scan returns some of the     *)
(* devices of the network or raises, pair()/begin()/finish()/connect()     *)
(* succeed or raise.  A coroutine runs atomically between two awaits on    *)
(* which another task can touch the state it uses.                         *)
(***************************************************************************)
EXTENDS Integers, Sequences, FiniteSets, TLC

\* ------------------------------------------------------------------ bounds
MaxHandlers == 3      \* pairing handlers the provider hands out in a run
MaxAtvs == 2          \* device handles the provider hands out in a run
MaxEvents == 3        \* push updates, poll ticks and changes of what plays in a run
MaxCmds == 4          \* inbound messages the connections receive in a run

\* ------------------------------------------------------------ the network
Conns == {"c1", "c2"}
None == "None"
Unknown == "Unknown"

\* The devices of the network as the provider describes them: name, address,
\* main identifier and the services (protocol name, service identifier).
Devices == {"TV", "SPK"}
DevInfo ==
  [d \in Devices |->
     IF d = "TV"
       THEN [name |-> "TV", address |-> "a1", identifier |-> "i1",
             services |-> << [protocol |-> "AirPlay", identifier |-> "i1"],
                             [protocol |-> "Companion", identifier |-> "i1"] >>]
       ELSE [name |-> "Spk", address |-> "a2", identifier |-> "i3",
             services |-> << [protocol |-> "RAOP", identifier |-> "i3"] >>]]
Addresses == {"a1", "a2"}
\* the device of the network that has an address
DeviceAt(address) == CHOOSE d \in Devices : DevInfo[d].address = address
DeviceIds == {"i1", "i3"}
\* What a scan can return (devices in the provider's order).
ScanResults == { <<>>, <<"TV">>, <<"TV", "SPK">> }

\* ---------------------------------------------------------------- helpers
Range(s) == { s[i] : i \in 1..Len(s) }
RECURSIVE Dedup(_)
Dedup(s) ==
  IF s = <<>> THEN <<>>
  ELSE LET r == Dedup(SubSeq(s, 1, Len(s) - 1))
       IN IF s[Len(s)] \in Range(r) THEN r ELSE Append(r, s[Len(s)])
MapSeq(s, F(_)) == [i \in 1..Len(s) |-> F(s[i])]
Filter(s, T(_)) == SelectSeq(s, T)

\* ------------------------------------------------- registry (atv_manager)
ServiceNames(d) == MapSeq(DevInfo[d].services, LAMBDA s : s.protocol)
AllIdentifiers(d) == { DevInfo[d].services[i].identifier : i \in 1..Len(DevInfo[d].services) }

\* stored_groups: the key of a record and the groups in dict (insertion) order
GroupKey(entry) == << entry.address, entry.name >>
GroupKeys(stored) == Dedup(MapSeq(stored, GroupKey))
StoredGroup(stored, key) ==
  LET creds == Filter(stored, LAMBDA e : GroupKey(e) = key)
  IN [name |-> key[2], address |-> key[1], creds |-> creds,
      ids |-> { creds[i].device_id : i \in 1..Len(creds) }]

NoKey == << None, None >>
\* the group an online device is matched to: the first group (dict order)
\* sharing an identifier, else the group of the device's address and name
MatchingKey(stored, d) ==
  LET keys == GroupKeys(stored)
      hits == { i \in 1..Len(keys) :
                  StoredGroup(stored, keys[i]).ids \cap AllIdentifiers(d) # {} }
      addr_key == << DevInfo[d].address, DevInfo[d].name >>
  IN IF hits # {} THEN keys[CHOOSE i \in hits : \A j \in hits : i <= j]
     ELSE IF addr_key \in Range(keys) THEN addr_key
     ELSE NoKey

PairOrder == << "MRP", "AirPlay", "Companion" >>
\* a list that leaves the paired protocols in
UnpairedIgnoringPaired(available, paired) ==
  Filter(PairOrder, LAMBDA s : s \in Range(available))
UnpairedServices(available, paired) ==
  Filter(PairOrder, LAMBDA s : s \in Range(available) /\ s \notin Range(paired))

ProcessOnlineDevice(d, stored, key) ==
  LET paired_protocols ==
        IF key = NoKey THEN <<>>
        ELSE Dedup(MapSeq(StoredGroup(stored, key).creds, LAMBDA e : e.protocol))
      available_services == ServiceNames(d)
  IN [name |-> DevInfo[d].name, address |-> DevInfo[d].address,
      device_id |-> DevInfo[d].identifier, services |-> available_services,
      paired_protocols |-> paired_protocols,
      unpaired_services |-> UnpairedServices(available_services, paired_protocols),
      paired |-> Len(paired_protocols) > 0, online |-> TRUE]

\* list(info['ids'])[0]: the first identifier in set order, which the
\* interpreter fixes; any member of ids can come first
FormatOfflineDevice(info, first_id) ==
  [name |-> info.name, address |-> info.address, device_id |-> first_id,
   services |-> <<>>,
   paired_protocols |-> MapSeq(info.creds, LAMBDA e : e.protocol),
   unpaired_services |-> <<>>, paired |-> TRUE, online |-> FALSE]

ProcessedKeys(scan, stored) ==
  { MatchingKey(stored, scan[i]) : i \in 1..Len(scan) } \ {NoKey}

OfflineKeys(scan, stored) ==
  Filter(GroupKeys(stored), LAMBDA k : k \notin ProcessedKeys(scan, stored))

\* the result list of get_formatted_discovery_results: the online devices
\* in scan order, then the unmatched stored groups in dict order
DiscoveryResults(scan, stored, pick) ==
  MapSeq(scan, LAMBDA d : ProcessOnlineDevice(d, stored, MatchingKey(stored, d)))
  \o MapSeq(OfflineKeys(scan, stored),
            LAMBDA k : FormatOfflineDevice(StoredGroup(stored, k), pick[k]))

\* the choices of list(info['ids'])[0], one per group
FirstIdChoices(stored) ==
  { f \in [Range(GroupKeys(stored)) -> DeviceIds] :
      \A k \in Range(GroupKeys(stored)) : f[k] \in StoredGroup(stored, k).ids }

NoDev == "NoDev"
\* a rebuild that does not clear(): the addresses the scan leaves out keep
\* the device they had
CacheWithoutClear(old, scan) ==
  [a \in Addresses |->
     LET at == { i \in 1..Len(scan) : DevInfo[scan[i]].address = a }
     IN IF at = {} THEN old[a]
        ELSE scan[CHOOSE i \in at : \A j \in at : j <= i]]
\* discovered_devices_cache after clear() and the loop over the scan
CacheAfterScan(old, scan) ==
  [a \in Addresses |->
     LET at == { i \in 1..Len(scan) : DevInfo[scan[i]].address = a }
     IN IF at = {} THEN NoDev
        ELSE scan[CHOOSE i \in at : \A j \in at : j <= i]]

\* a lookup that answers with a device of the network when the address is
\* not in the cache
CacheGetAny(cache, address) ==
  IF cache[address] # NoDev THEN cache[address] ELSE DeviceAt(address)
\* discovered_devices_cache.get(address) of _handle_connect and
\* _handle_pair_start
CacheGet(cache, address) == cache[address]

\* device.get_service(proto)
HasService(d, proto) == proto \in Range(ServiceNames(d))
ServiceIdentifier(d, proto) ==
  LET i == CHOOSE i \in 1..Len(DevInfo[d].services) : DevInfo[d].services[i].protocol = proto
  IN DevInfo[d].services[i].identifier

BestOrder == << "MRP", "Companion", "AirPlay" >>
SelectBestPairingProtocol(d) ==
  LET avail == Filter(BestOrder, LAMBDA p : HasService(d, p))
  IN IF avail = <<>> THEN None ELSE Head(avail)

\* ------------------------------------------------ credential store (db)
\* apple_tvs in rowid order; PRIMARY KEY (device_id, protocol)
\* a save that replaces every row of the device (a table keyed by device_id alone)
SaveReplacesDevice(st, device_id, protocol, name, address, credentials) ==
  Append(Filter(st, LAMBDA e : e.device_id # device_id),
         [device_id |-> device_id, protocol |-> protocol, name |-> name,
          address |-> address, credentials |-> credentials])
\* save_device_credentials: INSERT OR REPLACE on the primary key
SaveDeviceCredentials(st, device_id, protocol, name, address, credentials) ==
  Append(Filter(st, LAMBDA e : ~(e.device_id = device_id /\ e.protocol = protocol)),
         [device_id |-> device_id, protocol |-> protocol, name |-> name,
          address |-> address, credentials |-> credentials])
\* a delete without its WHERE clause
DeleteEveryDevice(st, device_id) == <<>>
\* delete_device: DELETE FROM apple_tvs WHERE device_id = ?
DeleteDevice(st, device_id) == Filter(st, LAMBDA e : e.device_id # device_id)

\* favourite_apps; PRIMARY KEY (device_id, bundle_id)
SaveFavouriteApp(fav, device_id, bundle_id, name, icon_url) ==
  { f \in fav : ~(f.device_id = device_id /\ f.bundle_id = bundle_id) }
    \cup {[device_id |-> device_id, bundle_id |-> bundle_id, name |-> name,
           icon_url |-> icon_url]}
RemoveFavouriteApp(fav, device_id, bundle_id) ==
  { f \in fav : ~(f.device_id = device_id /\ f.bundle_id = bundle_id) }

\* ------------------------------------------------- the device's playback
\* metadata.playing() (title, device_state, artist, album), metadata.app and
\* metadata.artwork_id of the device
NothingPlaying ==
  [title |-> None, device_state |-> "Idle", artist |-> None, album |-> None,
   app |-> None, artwork_id |-> None]
MediaStates ==
  { NothingPlaying,
    [title |-> None, device_state |-> "Playing", artist |-> None, album |-> "al",
     app |-> "app1", artwork_id |-> None],
    [title |-> "t1", device_state |-> "Playing", artist |-> "ar", album |-> "al",
     app |-> "app1", artwork_id |-> "art1"],
    [title |-> "t1", device_state |-> "Playing", artist |-> None, album |-> "al",
     app |-> "app1", artwork_id |-> "art2"],
    [title |-> "t2", device_state |-> "Idle", artist |-> None, album |-> None,
     app |-> None, artwork_id |-> None] }
\* DeviceState.name.lower()
Lower(name) == IF name = "Idle" THEN "idle" ELSE "playing"

\* ------------------------------------------------------------------ state
VARIABLES
  discovered_devices_cache,  \* address -> device of the last rebuild, or NoDev
  store,                     \* the rows of apple_tvs
  favourite_apps,            \* the rows of favourite_apps
  connected_remotes,         \* ws_id -> device handle (index of atvs), 0 = no entry
  active_pairings,           \* ws_id -> pairing session, NoSession = no entry
  handlers,                  \* the pairing handlers the provider handed out
  atvs,                      \* the device handles the provider handed out, each with
                             \* the volume tasks created for it and not run yet (tasks)
                             \* and, as history, the commands it was asked to run (calls)
  pc,                        \* ws_id -> the await the connection's handler is at
  ctx,                       \* ws_id -> the locals of that handler; command stays
                             \* as history: the last message that had no handler
  out,                       \* ws_id -> the events sent for the last command handled
  wsopen,                    \* ws_id -> the connection loop is running
  listeners,                 \* the NowPlayingListener of each device handle
  passes,                    \* the _update_now_playing coroutines in flight
  media,                     \* what the device plays (the provider's metadata)
  ncmds,                     \* history: the inbound messages received so far
  env,                       \* history: how many pushes, poll ticks and media changes so far
  lastScan,                  \* history: the scan of the last cache rebuild
  flow                       \* history: ws_id -> the pairing flow of the stored session

vars == << discovered_devices_cache, store, favourite_apps, connected_remotes, active_pairings,
           handlers, atvs, pc, ctx, out, wsopen, listeners, passes, media,
           ncmds, env, lastScan, flow >>
npvars == << listeners, passes, media, env >>

NoEnv == 0
NoSession == [handler |-> 0, address |-> None, queue |-> <<>>, current_proto |-> None]
NoCtx ==
  [scan |-> <<>>, address |-> None, device |-> NoDev, command |-> None,
   device_id |-> None]
NoFlow ==
  [chained |-> FALSE, queue0 |-> <<>>, cands |-> {}, begun |-> <<>>, saved |-> <<>>,
   completed |-> 0]

Ev(type, info) ==
  [type |-> type, info |-> info, protocol |-> None, step |-> None, devices |-> <<>>]
EvResults(devices) == [Ev("discovery_results", None) EXCEPT !.devices = devices]

\* The process starts with the rows earlier runs left in the database:
\* none, or those of the TV paired for one or for both of its protocols.
StoredTV(protocol) ==
  [device_id |-> "i1", protocol |-> protocol, name |-> "TV", address |-> "a1",
   credentials |-> << "cred", protocol >>]
InitialStores ==
  { <<>>, << StoredTV("AirPlay") >>, << StoredTV("AirPlay"), StoredTV("Companion") >> }
\* and with the favourites earlier runs left: one of the TV, one of the speaker
InitialFavourites ==
  { [device_id |-> "i1", bundle_id |-> "app1", name |-> "App 1", icon_url |-> None],
    [device_id |-> "i3", bundle_id |-> "app1", name |-> "App 1", icon_url |-> "icon"] }

Init ==
  /\ discovered_devices_cache = [a \in Addresses |-> NoDev]
  /\ store \in InitialStores
  /\ favourite_apps = InitialFavourites
  /\ connected_remotes = [c \in Conns |-> 0]
  /\ active_pairings = [c \in Conns |-> NoSession]
  /\ handlers = <<>>
  /\ atvs = <<>>
  /\ pc = [c \in Conns |-> "idle"]
  /\ ctx = [c \in Conns |-> NoCtx]
  /\ out = [c \in Conns |-> <<>>]
  /\ wsopen = [c \in Conns |-> TRUE]
  /\ listeners = <<>>
  /\ passes = <<>>
  /\ media = NothingPlaying
  /\ ncmds = 0
  /\ env = NoEnv
  /\ lastScan = <<>>
  /\ flow = [c \in Conns |-> NoFlow]

\* scan_network(): the provider returns a scan or raises
ScanFailed == << "ScanFailed" >>
ScanOutcomes == ScanResults \cup {ScanFailed}

\* a loop that takes the next message while the handler of the last one is
\* still suspended
IdleOrBusy(c) == wsopen[c]
\* handle_websocket: the loop is at receive_text, the _process_message of the
\* message before has returned
Idle(c) == wsopen[c] /\ pc[c] = "idle"
\* handle_websocket: receive_text returns the next inbound message
Receive(c) == Idle(c) /\ ncmds < MaxCmds /\ ncmds' = ncmds + 1

\* -------------------------------------------------------------- discover
\* _handle_discover up to the await of the scan; a scan that raises ends the
\* handler in _process_message's except, which sends nothing
HandleDiscover(c) ==
  /\ Receive(c)
  /\ \E scan \in ScanOutcomes :
       IF scan = ScanFailed
         THEN /\ out' = [out EXCEPT ![c] = <<>>]
              /\ UNCHANGED << pc, ctx >>
         ELSE /\ out' = [out EXCEPT ![c] = <<>>]
              /\ pc' = [pc EXCEPT ![c] = "discover"]
              /\ ctx' = [ctx EXCEPT ![c] = [NoCtx EXCEPT !.scan = scan]]
  /\ UNCHANGED << discovered_devices_cache, store, favourite_apps, connected_remotes, active_pairings,
                  handlers, atvs, wsopen, npvars, lastScan, flow >>

\* the rest of get_formatted_discovery_results (the stored rows are read, the
\* cache is cleared and rebuilt) and the discovery_results event; also ends
\* the _handle_discover that pair_pin and delete_device call last
DiscoverReturn(c) ==
  /\ wsopen[c]
  /\ UNCHANGED ncmds
  /\ pc[c] \in {"discover", "pair_pin", "delete_device"}
  /\ \E pick \in FirstIdChoices(store) :
       out' = [out EXCEPT ![c] =
                 Append(@, EvResults(DiscoveryResults(ctx[c].scan, store, pick)))]
  /\ discovered_devices_cache' = CacheAfterScan(discovered_devices_cache, ctx[c].scan)
  /\ lastScan' = ctx[c].scan
  /\ pc' = [pc EXCEPT ![c] = "idle"]
  /\ ctx' = [ctx EXCEPT ![c] = NoCtx]
  /\ UNCHANGED << store, favourite_apps, connected_remotes, active_pairings, handlers, atvs,
                  wsopen, npvars, flow >>

\* ---------------------------------------------------------------- pairing
ProtocolNames == {"MRP", "AirPlay", "Companion", "RAOP"}   \* pyatv.const.Protocol
RequestedProtocols == {None, "AirPlay", "Companion", "MRP"}
StartResults == {"ok", "raises"}     \* pair() and begin() of the provider

\* start_pairing_session(address, protocol_name) gets as far as begin():
\* the address is in the cache, the name is a Protocol, pair() finds the service
CanPair(cache, address, protocol_name) ==
  /\ cache[address] # NoDev
  /\ protocol_name \in ProtocolNames
  /\ HasService(cache[address], protocol_name)

NewHandler(c, cache, address, protocol_name, st) ==
  [conn |-> c, device |-> cache[address], address |-> address,
   protocol |-> protocol_name, st |-> st, closes |-> 0]

\* the "step" of the started event
StepField(queue) == IF Len(queue) >= 0 THEN "next" ELSE "final"
EvStarted(protocol_to_pair, queue) ==
  [Ev("pairing_status", "started") EXCEPT !.protocol = protocol_to_pair,
                                          !.step = StepField(queue)]

\* _start_next_in_pairing_queue: the handlers, the session of ws_id and the
\* event it leaves.  kept is what active_pairings[ws_id] holds if the start
\* raises: the entry as it was for pair_start, the entry with the popped
\* queue for pair_pin (session["queue"] is the list that was popped)
StartNext(c, cache, hs, address, queue, res, kept) ==
  LET protocol_to_pair == Head(queue)
      rest == Tail(queue)
  IN IF CanPair(cache, address, protocol_to_pair) /\ res = "ok"
       THEN [handlers |-> Append(hs, NewHandler(c, cache, address, protocol_to_pair, "begun")),
             session |-> [handler |-> Len(hs) + 1, address |-> address,
                          queue |-> rest, current_proto |-> protocol_to_pair],
             event |-> EvStarted(protocol_to_pair, rest),
             started |-> TRUE]
       ELSE [handlers |-> hs,
             session |-> kept,
             event |-> Ev("error", "Failed to start"),
             started |-> FALSE]

\* device_info['unpaired_services'] of the first entry at the address, [] if
\* there is none
UnpairedAt(results, address) ==
  LET at == { i \in 1..Len(results) : results[i].address = address }
  IN IF at = {} THEN <<>>
     ELSE results[CHOOSE i \in at : \A j \in at : i <= j].unpaired_services

\* a fallback that does not ask the device what it offers
PairStartQueueFixedFallback(unpaired, device) ==
  IF unpaired # <<>> THEN unpaired ELSE << "AirPlay" >>
\* the queue of a pair_start that names no protocol: the unpaired services,
\* else ("Fallback to generic best if list is empty") the best protocol
PairStartQueue(unpaired, device) ==
  IF unpaired # <<>> THEN unpaired
  ELSE IF SelectBestPairingProtocol(device) # None
    THEN << SelectBestPairingProtocol(device) >>
    ELSE <<>>

\* the protocols the queue of a pair_start was chosen among: the requested
\* one, the unpaired services, or what the device offers to the fallback
PairStartCandidates(unpaired, device) ==
  IF unpaired # <<>> THEN Range(unpaired)
  ELSE { p \in Range(BestOrder) : HasService(device, p) }
NewFlow(chained, queue0, cands, r) ==
  [chained |-> chained, queue0 |-> queue0, cands |-> cands,
   begun |-> << r.session.current_proto >>, saved |-> <<>>, completed |-> 0]

\* _handle_pair_start: the cache lookup, then either the start of the one
\* requested protocol or the await of the scan of get_formatted_discovery_results
HandlePairStart(c, address, requested_proto) ==
  /\ Receive(c)
  /\ IF CacheGet(discovered_devices_cache, address) = NoDev
       THEN /\ out' = [out EXCEPT ![c] = << Ev("error", "Device not found in cache.") >>]
            /\ UNCHANGED << active_pairings, handlers, pc, ctx, flow >>
       ELSE IF requested_proto # None
         THEN \E res \in StartResults :
                LET r == StartNext(c, discovered_devices_cache, handlers, address,
                                   << requested_proto >>, res, active_pairings[c])
                IN /\ Len(r.handlers) <= MaxHandlers
                   /\ handlers' = r.handlers
                   /\ active_pairings' = [active_pairings EXCEPT ![c] = r.session]
                   /\ out' = [out EXCEPT ![c] = << r.event >>]
                   /\ flow' = [flow EXCEPT ![c] =
                                 IF r.started THEN NewFlow(FALSE, << requested_proto >>, {requested_proto}, r)
                                 ELSE @]
                   /\ UNCHANGED << pc, ctx >>
         ELSE \E scan \in ScanOutcomes :
                /\ out' = [out EXCEPT ![c] = <<>>]
                /\ IF scan = ScanFailed
                     THEN UNCHANGED << pc, ctx >>
                     ELSE /\ pc' = [pc EXCEPT ![c] = "pair_start"]
                          /\ ctx' = [ctx EXCEPT ![c] =
                                       [scan |-> scan, address |-> address,
                                        device |-> CacheGet(discovered_devices_cache, address),
                                        command |-> None, device_id |-> None]]
                /\ UNCHANGED << active_pairings, handlers, flow >>
  /\ UNCHANGED << discovered_devices_cache, store, favourite_apps, connected_remotes, atvs, wsopen, npvars, lastScan >>

\* _handle_pair_start after the discovery: the queue is the unpaired services
\* of the entry at the address, else the best protocol of the device
PairStartResume(c) ==
  /\ wsopen[c]
  /\ UNCHANGED ncmds
  /\ pc[c] = "pair_start"
  /\ \E pick \in FirstIdChoices(store), res \in StartResults :
       LET cache == CacheAfterScan(discovered_devices_cache, ctx[c].scan)
           results == DiscoveryResults(ctx[c].scan, store, pick)
           unpaired == UnpairedAt(results, ctx[c].address)
           queue == PairStartQueue(unpaired, ctx[c].device)
       IN /\ discovered_devices_cache' = cache
          /\ IF queue = <<>>
               THEN /\ out' = [out EXCEPT ![c] = << Ev("error", "No unpaired services found.") >>]
                    /\ UNCHANGED << active_pairings, handlers, flow >>
               ELSE LET r == StartNext(c, cache, handlers, ctx[c].address, queue, res,
                                       active_pairings[c])
                    IN /\ Len(r.handlers) <= MaxHandlers
                       /\ handlers' = r.handlers
                       /\ active_pairings' = [active_pairings EXCEPT ![c] = r.session]
                       /\ out' = [out EXCEPT ![c] = << r.event >>]
                       /\ flow' = [flow EXCEPT ![c] =
                                     IF r.started
                                       THEN NewFlow(unpaired # <<>>, queue,
                                                    PairStartCandidates(unpaired, ctx[c].device), r)
                                       ELSE @]
  /\ lastScan' = ctx[c].scan
  /\ pc' = [pc EXCEPT ![c] = "idle"]
  /\ ctx' = [ctx EXCEPT ![c] = NoCtx]
  /\ UNCHANGED << store, favourite_apps, connected_remotes, atvs, wsopen, npvars >>

\* finish_pairing_session: name and address of the record are those of the
\* cached device that has the identifier of the paired service
CachedDevices(cache) == { cache[a] : a \in Addresses } \ {NoDev}
ResolveNameAddr(cache, device_id) ==
  LET found == { d \in CachedDevices(cache) :
                   DevInfo[d].identifier = device_id \/ device_id \in AllIdentifiers(d) }
  IN IF found = {} THEN [name |-> Unknown, address |-> Unknown]
     ELSE LET d == CHOOSE d \in found : TRUE
          IN [name |-> DevInfo[d].name, address |-> DevInfo[d].address]

\* handler.service.credentials after finish()
Credentials(h) == << "cred", h.protocol >>
\* a finish that files the record under the first service of the device
FinishStoresFirstService(cache, st, h) ==
  LET protocol == ServiceNames(h.device)[1]
      device_id == ServiceIdentifier(h.device, protocol)
      na == ResolveNameAddr(cache, device_id)
  IN SaveDeviceCredentials(st, device_id, protocol, na.name, na.address, Credentials(h))
FinishPairingSession(cache, st, h) ==
  LET device_id == ServiceIdentifier(h.device, h.protocol)
      na == ResolveNameAddr(cache, device_id)
  IN SaveDeviceCredentials(st, device_id, h.protocol, na.name, na.address, Credentials(h))

\* a pair_pin that never chains
NeverMoreToPair(queue) == FALSE
\* after a successful finish: chain the next protocol, or complete
MoreToPair(queue) == queue # <<>>

\* _handle_pair_pin.  handler.finish() succeeds at most once, on a handler
\* whose handshake was begun and is not over
HandlePairPin(c, pin_ok) ==
  /\ Receive(c)
  /\ LET session == active_pairings[c]
         hid == session.handler
     IN IF session = NoSession
          THEN /\ out' = [out EXCEPT ![c] = << Ev("error", "No active pairing") >>]
               /\ UNCHANGED << active_pairings, handlers, store, pc, ctx, flow >>
          ELSE IF ~(pin_ok /\ handlers[hid].st = "begun")
            THEN /\ handlers' = [handlers EXCEPT ![hid].st =
                                   IF @ = "begun" THEN "failed" ELSE @]
                 /\ out' = [out EXCEPT ![c] = << Ev("pairing_status", "failed") >>]
                 /\ UNCHANGED << active_pairings, store, pc, ctx, flow >>
            ELSE LET finished == [handlers EXCEPT ![hid].st = "finished"]
                     saved == Append(flow[c].saved, handlers[hid].protocol)
                 IN /\ store' = FinishPairingSession(discovered_devices_cache, store,
                                                     handlers[hid])
                    /\ IF MoreToPair(session.queue)
                         THEN \E res \in StartResults :
                                LET r == StartNext(c, discovered_devices_cache, finished,
                                                   session.address, session.queue, res,
                                                   [session EXCEPT !.queue = Tail(@)])
                                IN /\ Len(r.handlers) <= MaxHandlers
                                   /\ handlers' = r.handlers
                                   /\ active_pairings' = [active_pairings EXCEPT ![c] = r.session]
                                   /\ out' = [out EXCEPT ![c] = << r.event >>]
                                   /\ flow' = [flow EXCEPT ![c].saved = saved,
                                                 ![c].begun = IF r.started
                                                   THEN Append(@, r.session.current_proto)
                                                   ELSE @]
                                   /\ UNCHANGED << pc, ctx >>
                         ELSE /\ handlers' = finished
                              /\ active_pairings' = [active_pairings EXCEPT ![c] = NoSession]
                              /\ flow' = [flow EXCEPT ![c].saved = saved,
                                                      ![c].completed = @ + 1]
                              /\ \E scan \in ScanOutcomes :
                                   IF scan = ScanFailed
                                     THEN /\ out' = [out EXCEPT ![c] =
                                                       << Ev("pairing_status", "completed"),
                                                          Ev("pairing_status", "failed") >>]
                                          /\ UNCHANGED << pc, ctx >>
                                     ELSE /\ out' = [out EXCEPT ![c] =
                                                       << Ev("pairing_status", "completed") >>]
                                          /\ pc' = [pc EXCEPT ![c] = "pair_pin"]
                                          /\ ctx' = [ctx EXCEPT ![c] = [NoCtx EXCEPT !.scan = scan]]
  /\ UNCHANGED << discovered_devices_cache, favourite_apps, connected_remotes, atvs, wsopen,
                  npvars, lastScan >>

\* _handle_delete: the rows of the device are deleted, then _handle_discover
HandleDelete(c, device_id) ==
  /\ Receive(c)
  /\ store' = DeleteDevice(store, device_id)
  /\ out' = [out EXCEPT ![c] = <<>>]
  /\ \E scan \in ScanOutcomes :
       IF scan = ScanFailed
         THEN UNCHANGED << pc, ctx >>
         ELSE /\ pc' = [pc EXCEPT ![c] = "delete_device"]
              /\ ctx' = [ctx EXCEPT ![c] = [NoCtx EXCEPT !.scan = scan,
                                                         !.device_id = device_id]]
  /\ UNCHANGED << discovered_devices_cache, favourite_apps, connected_remotes, active_pairings,
                  handlers, atvs, wsopen, npvars, lastScan, flow >>

\* --------------------------------------------------------------- sessions
\* NowPlayingListener.__init__; last_device_state is not set there.  poll is
\* the position of the _periodic_sync task, init that of initial_fetch
Unset == "Unset"
NoEvent ==
  [title |-> None, artist |-> None, album |-> None, artwork |-> None,
   has_artwork |-> FALSE, device_state |-> Unset, app |-> None]
\* history of a listener: the app, title and artwork id of its last artwork()
\* that returned, how its last artwork() ended, and its last poll tick (how it
\* ended, what the device showed, whether it fetched artwork) if the device
\* has not changed what it plays since; and the status sample its last pass
\* was started with
NoKey3 == << None, None, None >>
NoSample == [title |-> None, device_state |-> Unset, artist |-> None, album |-> None]
NoTick == [outcome |-> "none", key |-> NoKey3, fetched |-> FALSE]
NewListener ==
  [is_running |-> TRUE, last_artwork_id |-> None, last_artwork_data |-> None,
   last_title |-> None, last_app |-> None, last_device_state |-> Unset,
   poll |-> "created", init |-> "created", emitted |-> NoEvent,
   fetched |-> NoKey3, last_fetch |-> "none", tick |-> NoTick, received |-> NoSample]
ConnectResults == {"ok", "raises"}      \* connect() of the provider

\* _handle_connect
HandleConnect(c, address) ==
  /\ Receive(c)
  /\ IF CacheGet(discovered_devices_cache, address) = NoDev
       THEN /\ out' = [out EXCEPT ![c] = << Ev("error", "Scan first.") >>]
            /\ UNCHANGED << connected_remotes, atvs, listeners >>
       ELSE \E res \in ConnectResults :
              IF res = "ok"
                THEN /\ Len(atvs) < MaxAtvs
                     /\ atvs' = Append(atvs, [conn |-> c,
                                              device |-> CacheGet(discovered_devices_cache,
                                                                  address),
                                              open |-> TRUE, push |-> TRUE, closes |-> 0,
                                              tasks |-> <<>>, calls |-> <<>>])
                     /\ connected_remotes' = [connected_remotes EXCEPT ![c] = Len(atvs) + 1]
                     /\ listeners' = Append(listeners, NewListener)
                     /\ out' = [out EXCEPT ![c] = << Ev("status", "Connected") >>]
                ELSE /\ out' = [out EXCEPT ![c] = << Ev("error", "connect raised") >>]
                     /\ UNCHANGED << connected_remotes, atvs, listeners >>
  /\ UNCHANGED << discovered_devices_cache, store, favourite_apps, active_pairings, handlers, pc, ctx,
                  wsopen, passes, media, env, lastScan, flow >>

\* a cleanup that stops the push updater and does not close the handle
CleanupAtvsPushOnly(c) ==
  IF connected_remotes[c] # 0
    THEN [atvs EXCEPT ![connected_remotes[c]].push = FALSE]
    ELSE atvs
\* _cleanup_session: what it leaves of the device handles and of the handlers
\* (push_updater.stop() and close() of the provider return; closes counts the
\* close() calls an object got)
CleanupAtvs(c) ==
  IF connected_remotes[c] # 0
    THEN [atvs EXCEPT ![connected_remotes[c]].push = FALSE,
                      ![connected_remotes[c]].open = FALSE,
                      ![connected_remotes[c]].closes = @ + 1]
    ELSE atvs
CleanupHandlers(c) ==
  IF active_pairings[c] # NoSession
    THEN [handlers EXCEPT ![active_pairings[c].handler].st = "closed",
                          ![active_pairings[c].handler].closes = @ + 1]
    ELSE handlers
\* a cleanup that leaves the entry of the connection in connected_remotes
KeepRemote(c) == connected_remotes
\* del connected_remotes[ws_id]
ReleaseRemote(c) == [connected_remotes EXCEPT ![c] = 0]
\* a cleanup that empties active_pairings
ReleaseEveryPairing(c) == [w \in Conns |-> NoSession]
\* del active_pairings[ws_id]
ReleasePairing(c) == [active_pairings EXCEPT ![c] = NoSession]
CleanupSession(c) ==
  /\ atvs' = CleanupAtvs(c)
  /\ connected_remotes' = ReleaseRemote(c)
  /\ handlers' = CleanupHandlers(c)
  /\ active_pairings' = ReleasePairing(c)

\* _handle_disconnect
HandleDisconnect(c) ==
  /\ Receive(c)
  /\ CleanupSession(c)
  /\ out' = [out EXCEPT ![c] = << Ev("status", "Disconnected from Apple TV.") >>]
  /\ UNCHANGED << discovered_devices_cache, store, favourite_apps, pc, ctx, wsopen, npvars, lastScan, flow >>

\* handle_websocket: receive_text raises WebSocketDisconnect
WebSocketDisconnect(c) ==
  /\ Idle(c)
  /\ UNCHANGED ncmds
  /\ CleanupSession(c)
  /\ wsopen' = [wsopen EXCEPT ![c] = FALSE]
  /\ UNCHANGED << discovered_devices_cache, store, favourite_apps, pc, ctx, out, npvars, lastScan, flow >>

\* ------------------------------------------------- now playing listener
\* A closed device handle raises on every call.
Sample(m) ==
  [title |-> m.title, device_state |-> m.device_state, artist |-> m.artist,
   album |-> m.album]
CurrentApp(a) == IF atvs[a].open THEN media.app ELSE None
CurrentArtworkId(a) == IF atvs[a].open THEN media.artwork_id ELSE None
\* "data:<mimetype>;base64,<bytes>" of the artwork the device shows
ArtworkPayload(artwork_id) ==
  IF artwork_id = "art1" THEN "data:image;base64,art1" ELSE "data:image;base64,art2"

Watching(app) == IF app = "app1" THEN "Watching app1" ELSE "Watching"
DisplayTitle(ps, current_app) ==
  IF ps.title # None THEN ps.title
  ELSE IF current_app # None THEN Watching(current_app) ELSE "Not Playing"
\* an artist line that falls back from artist to album to the label whatever
\* the title is
DisplayArtistChain(ps, current_app) ==
  IF ps.artist # None THEN ps.artist
  ELSE IF ps.album # None THEN ps.album ELSE "Apple TV"
DisplayArtist(ps, current_app) ==
  LET display_artist == IF ps.artist # None THEN ps.artist ELSE ps.album
  IN IF ps.title = None THEN "Apple TV"
     ELSE IF display_artist # None THEN display_artist ELSE "Apple TV"
NowPlayingEvent(lst, ps, current_app) ==
  [title |-> DisplayTitle(ps, current_app), artist |-> DisplayArtist(ps, current_app),
   album |-> ps.album, artwork |-> lst.last_artwork_data,
   has_artwork |-> lst.last_artwork_data # None,
   device_state |-> lst.last_device_state, app |-> current_app]
\* websocket.send_json of the listener of handle l: it raises once the
\* connection is gone, and the pass swallows that
Emit(l, lst, event) ==
  IF wsopen[atvs[l].conn] THEN [lst EXCEPT !.emitted = event] ELSE lst

\* _update_now_playing from its start to its first suspension: at artwork()
\* if something changed; else the event is sent and the pass is over (after
\* send_json is called the pass does nothing but return)
NeedsArtwork(changed_app, changed_title, changed_art_id) ==
  changed_app \/ changed_title \/ changed_art_id
BeginPass(l, src, ps) ==
  LET lst == [listeners[l] EXCEPT !.last_device_state = Lower(ps.device_state),
                                  !.received = ps]
      current_app == CurrentApp(l)
      current_artwork_id == CurrentArtworkId(l)
      changed_app == current_app # lst.last_app
      changed_title == ps.title # lst.last_title
      changed_art_id == current_artwork_id # lst.last_artwork_id
      fetch == NeedsArtwork(changed_app, changed_title, changed_art_id)
  IN [listener |-> IF fetch THEN lst
                   ELSE Emit(l, lst, NowPlayingEvent(lst, ps, current_app)),
      fetch |-> fetch,
      pass |-> [l |-> l, src |-> src, ps |-> ps, current_app |-> current_app,
                current_artwork_id |-> current_artwork_id,
                changed |-> changed_app \/ changed_title]]

RemoveAt(s, i) == SubSeq(s, 1, i - 1) \o SubSeq(s, i + 1, Len(s))
\* the test of "while self.is_running", made when the task starts and at the
\* end of every iteration
LoopTest(lst) == IF lst.is_running THEN "sleep" ELSE "done"
\* the task that awaited a pass goes on when the pass returns
Resume(lst, src) ==
  IF src = "poll" THEN [lst EXCEPT !.poll = LoopTest(lst)]
  ELSE IF src = "init" THEN [lst EXCEPT !.init = "done"]
  ELSE lst
Suspend(lst, src) ==
  IF src = "poll" THEN [lst EXCEPT !.poll = "pass"]
  ELSE IF src = "init" THEN [lst EXCEPT !.init = "pass"]
  ELSE lst
\* the listener and the passes after task src ran a pass on ps up to its
\* first suspension
\* what the device shows when a tick samples it
TickKey == << media.app, media.title, media.artwork_id >>
Ticked(lst, src, outcome, fetched) ==
  IF src = "poll"
    THEN [lst EXCEPT !.tick = [outcome |-> outcome, key |-> TickKey, fetched |-> fetched]]
    ELSE lst
RunPass(l, src, ps) ==
  LET r == BeginPass(l, src, ps)
  IN /\ listeners' = [listeners EXCEPT ![l] =
                        Ticked(IF r.fetch THEN Suspend(r.listener, src)
                               ELSE Resume(r.listener, src),
                               src, "pass", r.fetch)]
     /\ passes' = IF r.fetch THEN Append(passes, r.pass) ELSE passes

ProviderResults == {"ok", "raises"}
CallResults(a) == IF atvs[a].open THEN ProviderResults ELSE {"raises"}

\* the device starts to play something else
MediaChange(m) ==
  /\ m # media
  /\ env < MaxEvents
  /\ media' = m
  /\ env' = env + 1
  /\ listeners' = [l \in 1..Len(listeners) |-> [listeners[l] EXCEPT !.tick = NoTick]]
  /\ UNCHANGED << discovered_devices_cache, store, favourite_apps, connected_remotes, active_pairings,
                  handlers, atvs, pc, ctx, out, wsopen, passes, ncmds,
                  lastScan, flow >>

\* playstatus_update: the push updater of a started handle reports the status;
\* the task the listener creates runs the pass on the loop's next iteration
PlaystatusUpdate(l) ==
  /\ atvs[l].push
  /\ env < MaxEvents
  /\ env' = env + 1
  /\ RunPass(l, "push", Sample(media))
  /\ UNCHANGED << discovered_devices_cache, store, favourite_apps, connected_remotes, active_pairings,
                  handlers, atvs, pc, ctx, out, wsopen, media, ncmds, lastScan, flow >>

\* a failed fetch that never clears the cached artwork
ArtworkDataKeptOnFailure(lst, pass, res) ==
  IF res = "ok"
    THEN IF media.artwork_id # None THEN ArtworkPayload(media.artwork_id) ELSE None
    ELSE lst.last_artwork_data
\* artwork() returns the artwork the device shows now (None if it has none) or
\* raises; then the snapshot is written, the event is sent and the pass returns
ArtworkData(lst, pass, res) ==
  IF res = "ok"
    THEN IF media.artwork_id # None THEN ArtworkPayload(media.artwork_id) ELSE None
    ELSE IF pass.changed THEN None ELSE lst.last_artwork_data
PassArtwork(i) ==
  /\ \E res \in CallResults(passes[i].l) :
       LET pass == passes[i]
           lst == [listeners[pass.l] EXCEPT
                     !.last_artwork_data = ArtworkData(listeners[pass.l], pass, res),
                     !.last_artwork_id = pass.current_artwork_id,
                     !.last_title = pass.ps.title,
                     !.last_app = pass.current_app,
                     !.last_fetch = IF res = "ok" THEN "ok" ELSE "failed",
                     !.fetched = IF res = "ok"
                                   THEN << pass.current_app, pass.ps.title,
                                           pass.current_artwork_id >>
                                   ELSE @]
       IN listeners' = [listeners EXCEPT ![pass.l] =
                          Resume(Emit(pass.l, lst,
                                      NowPlayingEvent(lst, pass.ps, pass.current_app)),
                                 pass.src)]
  /\ passes' = RemoveAt(passes, i)
  /\ UNCHANGED << discovered_devices_cache, store, favourite_apps, connected_remotes, active_pairings,
                  handlers, atvs, pc, ctx, out, wsopen, media, ncmds, env, lastScan, flow >>

\* _periodic_sync: the task starts to run
PollStart(l) ==
  /\ listeners[l].poll = "created"
  /\ listeners' = [listeners EXCEPT ![l].poll = LoopTest(listeners[l])]
  /\ UNCHANGED << discovered_devices_cache, store, favourite_apps, connected_remotes, active_pairings,
                  handlers, atvs, pc, ctx, out, wsopen, passes, media, ncmds, env,
                  lastScan, flow >>

\* a tick that runs the pass whatever it sampled
PollAlwaysDetects(lst, ps) == TRUE
\* the comparison of a poll tick; reading last_device_state before any pass
\* has set it raises AttributeError, which the tick swallows
PollDetectsChange(lst, ps) ==
  IF ps.title # lst.last_title THEN TRUE
  ELSE IF lst.last_device_state = Unset THEN FALSE
  ELSE Lower(ps.device_state) # lst.last_device_state

\* _periodic_sync: the tick after a sleep, up to the first suspension of its
\* pass, or to the next sleep if it runs none
PollTick(l) ==
  /\ listeners[l].poll = "sleep"
  /\ env < MaxEvents
  /\ env' = env + 1
  /\ \E res \in CallResults(l) :
       IF res = "ok" /\ PollDetectsChange(listeners[l], Sample(media))
         THEN RunPass(l, "poll", Sample(media))
         ELSE /\ listeners' = [listeners EXCEPT ![l] =
                                 Ticked([@ EXCEPT !.poll = LoopTest(listeners[l])], "poll",
                                        IF res = "ok" THEN "skipped" ELSE "raised", FALSE)]
              /\ UNCHANGED passes
  /\ UNCHANGED << discovered_devices_cache, store, favourite_apps, connected_remotes, active_pairings,
                  handlers, atvs, pc, ctx, out, wsopen, media, ncmds, lastScan, flow >>

\* initial_fetch: playing() within 5 s, then the pass
InitialFetch(l) ==
  /\ listeners[l].init = "created"
  /\ \E res \in CallResults(l) :
       IF res = "ok"
         THEN RunPass(l, "init", Sample(media))
         ELSE /\ listeners' = [listeners EXCEPT ![l].init = "done"]
              /\ UNCHANGED passes
  /\ UNCHANGED << discovered_devices_cache, store, favourite_apps, connected_remotes, active_pairings,
                  handlers, atvs, pc, ctx, out, wsopen, media, ncmds, env, lastScan, flow >>

\* ------------------------------------------- remote control (atv_remote)
\* Inbound command names that are not in the handlers table of
\* _process_message: a remote_control command, the power toggle, a volume
\* command and a name perform_remote_command does not know
RemoteCommands == {"play_pause", "power_toggle", "volume_up", "bogus"}
VolumeCommands == {"volume_up", "volume_down"}
KnownCommands == {"play_pause", "power_toggle", "volume_up", "volume_down"}

\* perform_remote_command(atv, cmd) -> (success, msg); res is how the call of
\* the device ended
CommandResult(cmd, res) ==
  IF cmd \notin KnownCommands THEN [success |-> FALSE, msg |-> "Unknown command"]
  ELSE IF res = "ok" THEN [success |-> TRUE, msg |-> "executed"]
  ELSE [success |-> FALSE, msg |-> "raised"]
\* what _handle_remote_cmd sends for the result of an awaited command
RemoteCmdEvents(r) == IF r.success THEN <<>> ELSE << Ev("error", r.msg) >>

\* _handle_remote_cmd up to the await of the device call: nothing without a
\* connected device, a task for a volume command, the error of a name that
\* perform_remote_command rejects before it calls the device
HandleRemoteCmd(c, command) ==
  /\ Receive(c)
  /\ LET atv == connected_remotes[c]
     IN IF atv = 0
          THEN /\ out' = [out EXCEPT ![c] = <<>>]
               /\ UNCHANGED << atvs, pc >>
          ELSE IF command \in VolumeCommands
            THEN /\ atvs' = [atvs EXCEPT ![atv].tasks = Append(@, command)]
                 /\ out' = [out EXCEPT ![c] = <<>>]
                 /\ UNCHANGED pc
            ELSE IF command \notin KnownCommands
              THEN /\ out' = [out EXCEPT ![c] = RemoteCmdEvents(CommandResult(command, "ok"))]
                   /\ UNCHANGED << atvs, pc >>
              ELSE /\ out' = [out EXCEPT ![c] = <<>>]
                   /\ pc' = [pc EXCEPT ![c] = "remote"]
                   /\ UNCHANGED atvs
  /\ ctx' = [ctx EXCEPT ![c] = [NoCtx EXCEPT !.command = command]]
  /\ UNCHANGED << discovered_devices_cache, store, favourite_apps, connected_remotes, active_pairings,
                  handlers, wsopen, npvars, lastScan, flow >>

\* the device call of an awaited command returns or raises
RemoteCmdReturn(c) ==
  /\ wsopen[c]
  /\ pc[c] = "remote"
  /\ UNCHANGED ncmds
  /\ LET atv == connected_remotes[c]
     IN /\ atvs' = [atvs EXCEPT ![atv].calls = Append(@, ctx[c].command)]
        /\ \E res \in CallResults(atv) :
             out' = [out EXCEPT ![c] = RemoteCmdEvents(CommandResult(ctx[c].command, res))]
  /\ pc' = [pc EXCEPT ![c] = "idle"]
  /\ UNCHANGED << discovered_devices_cache, store, favourite_apps, connected_remotes, active_pairings,
                  handlers, ctx, wsopen, npvars, lastScan, flow >>

\* the task of a volume command runs; nobody awaits its result
VolumeTask(a) ==
  /\ atvs[a].tasks # <<>>
  /\ atvs' = [atvs EXCEPT ![a].tasks = Tail(@), ![a].calls = Append(@, Head(atvs[a].tasks))]
  /\ UNCHANGED << discovered_devices_cache, store, favourite_apps, connected_remotes, active_pairings,
                  handlers, pc, ctx, out, wsopen, npvars, ncmds, lastScan, flow >>

\* _process_message: json.loads or data.get raises on a payload that is not
\* a JSON object; the except prints the error
Malformed == "Malformed"
MalformedMessage(c) ==
  /\ Receive(c)
  /\ out' = [out EXCEPT ![c] = <<>>]
  /\ ctx' = [ctx EXCEPT ![c] = [NoCtx EXCEPT !.command = Malformed]]
  /\ UNCHANGED << discovered_devices_cache, store, favourite_apps, connected_remotes, active_pairings,
                  handlers, atvs, pc, wsopen, npvars, lastScan, flow >>

\* --------------------------------------------- registry and pairing clients
Next ==
  \/ \E c \in Conns : HandleDiscover(c)
  \/ \E c \in Conns : DiscoverReturn(c)
  \/ \E c \in Conns, a \in Addresses, p \in RequestedProtocols : HandlePairStart(c, a, p)
  \/ \E c \in Conns : PairStartResume(c)
  \/ \E c \in Conns, pin_ok \in BOOLEAN : HandlePairPin(c, pin_ok)
  \/ \E c \in Conns, id \in DeviceIds : HandleDelete(c, id)
  \/ \E c \in Conns, a \in Addresses : HandleConnect(c, a)
  \/ \E c \in Conns : HandleDisconnect(c)
  \/ \E c \in Conns : WebSocketDisconnect(c)

Spec == Init /\ [][Next]_vars

\* ------------------------------- a remote-control client and its listener
\* the state after connection c1 discovered the TV and connected to it: the
\* tasks of the listener are created and have not run yet, and the device
\* shows whatever it was showing when the client connected
Remote == "c1"
InitNP ==
  /\ discovered_devices_cache = CacheAfterScan([a \in Addresses |-> NoDev], << "TV" >>)
  /\ store = <<>>
  /\ favourite_apps = InitialFavourites
  /\ connected_remotes = [c \in Conns |-> IF c = Remote THEN 1 ELSE 0]
  /\ active_pairings = [c \in Conns |-> NoSession]
  /\ handlers = <<>>
  /\ atvs = << [conn |-> Remote, device |-> "TV", open |-> TRUE, push |-> TRUE,
                closes |-> 0, tasks |-> <<>>, calls |-> <<>>] >>
  /\ pc = [c \in Conns |-> "idle"]
  /\ ctx = [c \in Conns |-> NoCtx]
  /\ out = [c \in Conns |-> IF c = Remote THEN << Ev("status", "Connected") >> ELSE <<>>]
  /\ wsopen = [c \in Conns |-> TRUE]
  /\ listeners = << NewListener >>
  /\ passes = <<>>
  /\ media \in MediaStates
  /\ ncmds = 2
  /\ env = NoEnv
  /\ lastScan = << "TV" >>
  /\ flow = [c \in Conns |-> NoFlow]

NextNP ==
  \/ HandleDisconnect(Remote)
  \/ WebSocketDisconnect(Remote)
  \/ \E m \in MediaStates : MediaChange(m)
  \/ \E l \in 1..Len(atvs) : PlaystatusUpdate(l)
  \/ \E i \in 1..Len(passes) : PassArtwork(i)
  \/ \E l \in 1..Len(listeners) : PollStart(l)
  \/ \E l \in 1..Len(listeners) : PollTick(l)
  \/ \E l \in 1..Len(listeners) : InitialFetch(l)

SpecNP == InitNP /\ [][NextNP]_vars

\* ------------------------------------ the dispatcher of a connected client
\* every inbound message of _process_message, from the state in which c1 is
\* connected to the TV (nothing playing) and c2 is not connected
InitRC == InitNP /\ media = NothingPlaying
NextRC ==
  \/ \E c \in Conns : MalformedMessage(c)
  \/ \E c \in Conns, command \in RemoteCommands : HandleRemoteCmd(c, command)
  \/ \E c \in Conns : RemoteCmdReturn(c)
  \/ \E a \in 1..Len(atvs) : VolumeTask(a)
  \/ Next

SpecRC == InitRC /\ [][NextRC]_vars

\* ------------------------------------------------ the credential table
\* The table apple_tvs under the calls the server makes on it: init_db leaves
\* a new table empty, finish_pairing_session saves the record of a service of
\* a device (under the name and address of the device, or "Unknown" when the
\* cache does not have it; a later handshake yields other credentials) and
\* _handle_delete deletes the rows of a device_id.
DbProtocols == {"AirPlay", "Companion"}
DbCredentials == {"cred", "renewed"}
DbOwner(device_id) == CHOOSE d \in Devices : DevInfo[d].identifier = device_id
DbNames(device_id) ==
  { [name |-> DevInfo[DbOwner(device_id)].name,
     address |-> DevInfo[DbOwner(device_id)].address],
    [name |-> Unknown, address |-> Unknown] }
InitDB ==
  /\ store = <<>>
  /\ favourite_apps = {}
  /\ discovered_devices_cache = [a \in Addresses |-> NoDev]
  /\ connected_remotes = [c \in Conns |-> 0]
  /\ active_pairings = [c \in Conns |-> NoSession]
  /\ handlers = <<>>
  /\ atvs = <<>>
  /\ pc = [c \in Conns |-> "idle"]
  /\ ctx = [c \in Conns |-> NoCtx]
  /\ out = [c \in Conns |-> <<>>]
  /\ wsopen = [c \in Conns |-> TRUE]
  /\ listeners = <<>>
  /\ passes = <<>>
  /\ media = NothingPlaying
  /\ ncmds = 0
  /\ env = NoEnv
  /\ lastScan = <<>>
  /\ flow = [c \in Conns |-> NoFlow]
dbframe == << discovered_devices_cache, connected_remotes, active_pairings, handlers,
             atvs, pc, ctx, out, wsopen, listeners, passes, media, ncmds, env,
             lastScan, flow >>
DbSave(device_id, protocol, na, credentials) ==
  /\ store' = SaveDeviceCredentials(store, device_id, protocol, na.name, na.address,
                                    << credentials, protocol >>)
  /\ UNCHANGED << favourite_apps, dbframe >>
DbDelete(device_id) ==
  /\ store' = DeleteDevice(store, device_id)
  /\ UNCHANGED << favourite_apps, dbframe >>
\* toggle_favorite_app: the favourite is saved (with the icon the lookup
\* found, if any) or removed
DbBundles == {"app1"}
DbIcons == {None, "icon"}
DbSaveFavourite(device_id, bundle_id, icon_url) ==
  /\ favourite_apps' = SaveFavouriteApp(favourite_apps, device_id, bundle_id, "App 1", icon_url)
  /\ UNCHANGED << store, dbframe >>
DbRemoveFavourite(device_id, bundle_id) ==
  /\ favourite_apps' = RemoveFavouriteApp(favourite_apps, device_id, bundle_id)
  /\ UNCHANGED << store, dbframe >>
NextDB ==
  \/ \E device_id \in DeviceIds, bundle_id \in DbBundles, icon_url \in DbIcons :
       DbSaveFavourite(device_id, bundle_id, icon_url)
  \/ \E device_id \in DeviceIds, bundle_id \in DbBundles :
       DbRemoveFavourite(device_id, bundle_id)
  \/ \E device_id \in DeviceIds, protocol \in DbProtocols, credentials \in DbCredentials :
       \E na \in DbNames(device_id) : DbSave(device_id, protocol, na, credentials)
  \/ \E device_id \in DeviceIds : DbDelete(device_id)
SpecDB == InitDB /\ [][NextDB]_vars

\* ------------------------------------------------------------------ claims
ScanAddresses(scan) == { DevInfo[scan[i]].address : i \in 1..Len(scan) }
IsPrefix(s, t) == Len(s) <= Len(t) /\ SubSeq(t, 1, Len(s)) = s
HeldHandlers(c) == { h \in 1..Len(handlers) : handlers[h].conn = c }

\* C2: the only pairing handler of a connection whose handshake is begun and
\* that is not closed is the one active_pairings holds for the connection
\* (a pair_start closes the handler of the previous session first).
C2_PreviousHandlerClosed ==
  \A c \in Conns : \A h \in HeldHandlers(c) :
    handlers[h].st = "begun" => active_pairings[c].handler = h

\* C4: after a failed pair_pin the connection has no PairingSession (the
\* state machine is back in Idle, the queue is discarded), so that the next
\* pair_pin is answered with "No active pairing".
C4_FailedPinBackToIdle ==
  \A c \in Conns :
    out[c] = << Ev("pairing_status", "failed") >> => active_pairings[c] = NoSession

\* C5: in a chained flow (pair_start without protocol, n >= 1 unpaired
\* protocols) the protocols are begun in queue order, one at a time, the next
\* one only after the PIN of the one before succeeded; every successful PIN
\* persists the record of its protocol; "completed" is sent exactly once,
\* when the n-th record has been persisted, and not before.
C5_FlowInv ==
  \A c \in Conns :
    flow[c].chained =>
      /\ Len(flow[c].queue0) >= 1
      /\ IsPrefix(flow[c].begun, flow[c].queue0)
      /\ IsPrefix(flow[c].saved, flow[c].begun)
      /\ Len(flow[c].begun) <= Len(flow[c].saved) + 1
      /\ flow[c].completed = (IF Len(flow[c].saved) = Len(flow[c].queue0) THEN 1 ELSE 0)
C5_FlowStep ==
  \A c \in Conns :
    /\ Len(flow'[c].saved) > Len(flow[c].saved) /\ flow'[c].chained
         => \E i \in 1..Len(store') :
              /\ store'[i].protocol = flow'[c].saved[Len(flow'[c].saved)]
              /\ store'[i].device_id \in AllIdentifiers("TV")
    /\ flow'[c].completed > flow[c].completed
         => out'[c] # <<>> /\ out'[c][1] = Ev("pairing_status", "completed")
    /\ (Ev("pairing_status", "completed") \in Range(out'[c]) \ Range(out[c]))
         => flow'[c].completed = flow[c].completed + 1 /\ flow'[c].queue0 = flow[c].queue0
C5_ChainedPairing == [](C5_FlowInv) /\ [][C5_FlowStep]_vars
C5_Witness ==
  \E c \in Conns :
    /\ flow[c].chained /\ Len(flow[c].queue0) = 2
    /\ flow[c].saved = flow[c].queue0 /\ flow[c].completed = 1
    /\ Len(store) = 2

\* C7: the cache holds exactly the devices of the scan that rebuilt it last,
\* whatever the interleaving of the discovery calls, and a connect or a
\* pair_start on an address that scan did not return is answered with the
\* device-not-found error (a pair_start whose own rescan drops the address is
\* answered with an error and begins no handshake).
C7_CacheInv ==
  \A a \in Addresses :
    IF a \in ScanAddresses(lastScan)
      THEN discovered_devices_cache[a] \in Range(lastScan)
           /\ DevInfo[discovered_devices_cache[a]].address = a
      ELSE discovered_devices_cache[a] = NoDev
C7_LookupStep ==
  \A c \in Conns : \A a \in Addresses \ ScanAddresses(lastScan) :
    /\ (\E p \in RequestedProtocols : HandlePairStart(c, a, p))
         => out'[c] = << Ev("error", "Device not found in cache.") >>
    /\ HandleConnect(c, a) => out'[c] = << Ev("error", "Scan first.") >>
C7_RescanStep ==
  \A c \in Conns :
    PairStartResume(c) /\ ctx[c].address \notin ScanAddresses(ctx[c].scan)
      => /\ out'[c][1].type = "error"
         /\ UNCHANGED << handlers, active_pairings >>
C7_CacheIsLastScan == [](C7_CacheInv) /\ [][C7_LookupStep /\ C7_RescanStep]_vars
\* a second discovery dropped an address of the first one, and a pair_start
\* on it was refused
C7_Witness ==
  \E c \in Conns :
    /\ lastScan = << "TV" >>
    /\ out[c] = << Ev("error", "Device not found in cache.") >>
    /\ \E d \in Conns \ {c} : Len(out[d]) = 1 /\ out[d][1].type = "discovery_results"
                              /\ Len(out[d][1].devices) = 2

\* C8: a discover whose scan fails is still answered with discovery_results:
\* no online device, every stored group as an offline entry.
C8_ScanFailureAnswered ==
  [][\A c \in Conns :
       HandleDiscover(c) /\ pc'[c] = "idle"
         => \E pick \in FirstIdChoices(store) :
              out'[c] = << EvResults(DiscoveryResults(<<>>, store, pick)) >>]_vars

\* C9: in a discovery result two stored records with the same device_id or
\* the same (address, name) are in one entry, and no device is in two entries.
SameDevice(r1, r2) == r1.device_id = r2.device_id \/ GroupKey(r1) = GroupKey(r2)
MergedView(stored, results) ==
  /\ \A i, j \in 1..Len(stored) :
       SameDevice(stored[i], stored[j])
         => \E k \in 1..Len(results) :
              {stored[i].protocol, stored[j].protocol} \subseteq Range(results[k].paired_protocols)
  /\ \A k, l \in 1..Len(results) :
       results[k].device_id = results[l].device_id => k = l
C9_OneEntryPerDevice ==
  [][\A c \in Conns :
       DiscoverReturn(c) => MergedView(store, out'[c][Len(out'[c])].devices)]_vars

\* C10 as stated: a pair_start without protocol for a device that the
\* discovery lists online without unpaired protocol reports "No unpaired
\* services found.": no handshake is begun, no PairingSession is created.
NothingToPair(c) ==
  /\ out'[c] = << Ev("error", "No unpaired services found.") >>
  /\ UNCHANGED << handlers, active_pairings >>
NoUnpaired(c) ==
  \A pick \in FirstIdChoices(store) :
    LET results == DiscoveryResults(ctx[c].scan, store, pick)
    IN /\ \E i \in 1..Len(results) :
            results[i].address = ctx[c].address /\ results[i].online
       /\ UnpairedAt(results, ctx[c].address) = <<>>
C10_NothingToPair ==
  [][\A c \in Conns : PairStartResume(c) /\ NoUnpaired(c) => NothingToPair(c)]_vars
\* C10 amended: it does so when the device also advertises none of MRP,
\* Companion, AirPlay; otherwise the handshake of the best of these is started.
C10_NothingToPairAmended ==
  [][\A c \in Conns :
       PairStartResume(c) /\ NoUnpaired(c) =>
         IF \A p \in Range(BestOrder) : ~HasService(ctx[c].device, p)
           THEN NothingToPair(c)
           ELSE \/ /\ out'[c] = << Ev("error", "Failed to start") >>
                   /\ UNCHANGED << handlers, active_pairings >>
                \/ /\ out'[c][1].type = "pairing_status" /\ out'[c][1].info = "started"
                   /\ HasService(ctx[c].device, out'[c][1].protocol)
                   /\ \A p \in Range(BestOrder) :
                        HasService(ctx[c].device, p) =>
                          \E i, j \in 1..Len(BestOrder) :
                            /\ BestOrder[i] = out'[c][1].protocol /\ BestOrder[j] = p
                            /\ i <= j
                   /\ active_pairings'[c].handler = Len(handlers')
                   /\ handlers'[Len(handlers')].st = "begun"]_vars
C10_Witness ==
  \E c \in Conns :
    /\ out[c] = << Ev("error", "No unpaired services found.") >>
    /\ discovered_devices_cache["a2"] = "SPK"

\* C1: once _cleanup_session has closed the handle of a session, the poll loop
\* of its listener stops at its next loop test; it starts no further tick.
Cleaned(l) == ~atvs[l].open
LoopTested(l) ==
  \/ PollStart(l)
  \/ PollTick(l) /\ listeners'[l].poll # "pass"
  \/ \E i \in 1..Len(passes) :
       passes[i].l = l /\ passes[i].src = "poll" /\ PassArtwork(i)
C1_PollLoopCancelled ==
  [][\A l \in 1..Len(listeners) :
       Cleaned(l) /\ LoopTested(l) => listeners'[l].poll = "done"]_vars

\* C3: a connection has at most one open device handle (a connect on a
\* connected connection does not leave the previous handle open).
OpenHandles(c) == { a \in 1..Len(atvs) : atvs[a].conn = c /\ atvs[a].open }
C3_OneOpenHandle == \A c \in Conns : Cardinality(OpenHandles(c)) <= 1

\* C6: at most one pass of a listener is between its start and its snapshot
\* write and emit.
PassesInFlight(l) == { i \in 1..Len(passes) : passes[i].l = l }
C6_OnePassInFlight ==
  \A l \in 1..Len(listeners) : Cardinality(PassesInFlight(l)) <= 1
\* C11: _cleanup_session, run for the disconnect command and when the
\* connection loop ends, closes the device handle that connected_remotes holds
\* for the connection and the pairing handler that active_pairings holds for
\* it, and removes both entries.
IsCleanup(c) == HandleDisconnect(c) \/ WebSocketDisconnect(c)
C11_CleanupReleases ==
  [][\A c \in Conns :
       IsCleanup(c) =>
         /\ connected_remotes'[c] = 0
         /\ active_pairings'[c] = NoSession
         /\ connected_remotes[c] # 0 =>
              /\ ~atvs'[connected_remotes[c]].open
              /\ ~atvs'[connected_remotes[c]].push
         /\ active_pairings[c] # NoSession =>
              handlers'[active_pairings[c].handler].st = "closed"]_vars
\* a dropped connection that was connected and pairing
C11_Witness ==
  \E c \in Conns :
    /\ ~wsopen[c]
    /\ \E a \in 1..Len(atvs) : atvs[a].conn = c /\ ~atvs[a].open
    /\ \E h \in 1..Len(handlers) : handlers[h].conn = c /\ handlers[h].st = "closed"

\* C12: a second cleanup of a connection (or one with no session) is no
\* error and closes nothing: no device handle and no pairing handler gets
\* more than one close(), and the disconnect command is answered as usual.
ClosedOnce ==
  /\ \A a \in 1..Len(atvs) : atvs[a].closes <= 1
  /\ \A h \in 1..Len(handlers) : handlers[h].closes <= 1
NoSessionCleanup ==
  \A c \in Conns :
    /\ IsCleanup(c) /\ connected_remotes[c] = 0 /\ active_pairings[c] = NoSession
         => UNCHANGED << atvs, handlers, connected_remotes, active_pairings >>
    /\ HandleDisconnect(c)
         => out'[c] = << Ev("status", "Disconnected from Apple TV.") >>
C12_CleanupIdempotent == [](ClosedOnce) /\ [][NoSessionCleanup]_vars
\* the disconnect command, then the drop of the connection
C12_Witness ==
  \E c \in Conns :
    /\ ~wsopen[c]
    /\ out[c] = << Ev("status", "Disconnected from Apple TV.") >>
    /\ \E a \in 1..Len(atvs) : atvs[a].conn = c /\ atvs[a].closes = 1
\* C13: the snapshot of a listener (last_title, last_app, last_artwork_id,
\* the cached artwork, the device state) is written only when a pass
\* completes: a pass that is suspended at its artwork fetch has written
\* nothing yet, and a pass whose emit fails leaves the snapshot as it was.
Snapshot(lst) ==
  << lst.last_title, lst.last_app, lst.last_artwork_id, lst.last_artwork_data,
     lst.last_device_state >>
PassSuspends(l) ==
  Len(passes') = Len(passes) + 1 /\ passes'[Len(passes')].l = l
EmitFails(l) ==
  \E i \in 1..Len(passes) : passes[i].l = l /\ PassArtwork(i) /\ ~wsopen[atvs[l].conn]
C13_SnapshotWrittenAtEnd ==
  [][\A l \in 1..Len(listeners) :
       PassSuspends(l) \/ EmitFails(l)
         => Snapshot(listeners'[l]) = Snapshot(listeners[l])]_vars

\* C14: a pass fetches artwork exactly when the app, the title or the artwork
\* id it sees differs from those of the last artwork fetch that succeeded
\* (so a pass after a failed fetch of the same content fetches again).
FetchDue(l) ==
  << CurrentApp(l), media.title, CurrentArtworkId(l) >> # listeners[l].fetched
C14_FetchWhenChanged ==
  [][\A l \in 1..Len(listeners) :
       /\ PlaystatusUpdate(l) => (PassSuspends(l) <=> FetchDue(l))
       /\ (PollTick(l) \/ InitialFetch(l)) /\ PassSuspends(l) => FetchDue(l)]_vars

\* C15: when the artwork fetch of a pass fails, the cached artwork is cleared
\* and the event says has_artwork = false, artwork = null if the app or the
\* title changed; otherwise the cached artwork is kept and emitted unchanged.
FetchFailed(i) == PassArtwork(i) /\ listeners'[passes[i].l].last_fetch = "failed"
C15_FailedFetch ==
  [][\A i \in 1..Len(passes) :
       FetchFailed(i) =>
         LET l == passes[i].l
             sent == wsopen[atvs[l].conn]
         IN IF passes[i].changed
              THEN /\ listeners'[l].last_artwork_data = None
                   /\ sent => /\ listeners'[l].emitted.has_artwork = FALSE
                               /\ listeners'[l].emitted.artwork = None
              ELSE /\ listeners'[l].last_artwork_data = listeners[l].last_artwork_data
                   /\ sent => /\ listeners'[l].emitted.artwork = listeners[l].last_artwork_data
                               /\ listeners'[l].emitted.has_artwork
                                    = (listeners[l].last_artwork_data # None)]_vars
\* the artwork of a title was cached, its artwork id changed, the fetch of
\* the new artwork failed and the event still carries the cached one
C15_Witness ==
  \E l \in 1..Len(listeners) :
    /\ listeners[l].last_fetch = "failed"
    /\ listeners[l].emitted.has_artwork
    /\ listeners[l].last_artwork_id = "art2"
    /\ listeners[l].emitted.artwork = ArtworkPayload("art1")

\* C16: a poll tick that gets a sample whose title or device state is not the
\* one recorded last (nothing recorded yet included) runs a pass.
SampleDiffers(l) ==
  \/ media.title # listeners[l].last_title
  \/ listeners[l].last_device_state = Unset
  \/ Lower(media.device_state) # listeners[l].last_device_state
Sampled(l) == PollTick(l) /\ listeners'[l].tick.outcome \in {"skipped", "pass"}
C16_PollCatchesChange ==
  [][\A l \in 1..Len(listeners) :
       Sampled(l) /\ listeners[l].init = "done" /\ SampleDiffers(l)
         => listeners'[l].tick.outcome = "pass"]_vars

\* C17: a poll tick whose sample has the title and the device state of the
\* snapshot runs no pass: no event, no artwork fetch, the snapshot untouched.
C17_PollNoDoubleFire ==
  [][\A l \in 1..Len(listeners) :
       PollTick(l) /\ ~SampleDiffers(l) =>
         /\ listeners'[l].tick.outcome # "pass"
         /\ passes' = passes
         /\ listeners'[l].emitted = listeners[l].emitted
         /\ Snapshot(listeners'[l]) = Snapshot(listeners[l])]_vars
\* a tick found what the last pass had recorded and skipped
C17_Witness ==
  \E l \in 1..Len(listeners) :
    /\ listeners[l].tick.outcome = "skipped"
    /\ listeners[l].last_device_state = "playing"
    /\ listeners[l].last_title = "t1"
    /\ atvs[l].open

\* C18: of two consecutive poll ticks that find the same title, app and
\* artwork id on a device that did not change in between, at most one
\* fetches artwork.
C18_OneFetchForTwoTicks ==
  [][\A l \in 1..Len(listeners) :
       /\ Sampled(l)
       /\ listeners[l].tick.outcome \in {"skipped", "pass"}
       /\ listeners[l].tick.key = listeners'[l].tick.key
       /\ listeners[l].tick.fetched
       => ~listeners'[l].tick.fetched]_vars

\* C19: a record (device_id, protocol) gets into the store only by the
\* pair_pin that finishes the handshake of that device and protocol; a failed
\* PIN, a failed start and an abandoned pairing leave the store as it is.
Rows(st) == Range(st)
Finishes(h) == handlers[h].st = "begun" /\ handlers'[h].st = "finished"
WrittenBy(h) ==
  LET row == store'[Len(store')]
  IN /\ store' # <<>>
     /\ row.protocol = handlers[h].protocol
     /\ row.device_id \in AllIdentifiers(handlers[h].device)
     /\ row.device_id = ServiceIdentifier(handlers[h].device, handlers[h].protocol)
     /\ Rows(SubSeq(store', 1, Len(store') - 1)) \subseteq Rows(store)
FailedStart(c) ==
  /\ (\E a \in Addresses, p \in RequestedProtocols : HandlePairStart(c, a, p))
       \/ PairStartResume(c)
  /\ out'[c] = << Ev("error", "Failed to start") >>
C19_StoreStep ==
  store' # store =>
    /\ \/ /\ \E c \in Conns, id \in DeviceIds : HandleDelete(c, id)
          /\ Rows(store') \subseteq Rows(store)
       \/ /\ \E c \in Conns : HandlePairPin(c, TRUE)
          /\ \E h \in 1..Len(handlers) : Finishes(h) /\ WrittenBy(h)
    /\ \A c \in Conns :
         ~(HandlePairPin(c, FALSE) \/ FailedStart(c) \/ IsCleanup(c))
C19_RecordOnlyAfterPairing == [][C19_StoreStep]_vars
\* the Companion record of the TV was written into an empty store
C19_Witness ==
  /\ Len(store) = 1 /\ store[1].protocol = "Companion" /\ store[1].device_id = "i1"
  /\ \E h \in 1..Len(handlers) :
       handlers[h].st = "finished" /\ handlers[h].protocol = "Companion"

\* C20: a discovery lists an online device with paired = true and each
\* protocol that has a stored record as paired and not as unpaired, with its
\* other advertised pairable protocols as unpaired, in one entry; with an
\* empty store it lists it as not paired, all pairable protocols unpaired.
Pairable(d) == { p \in Range(PairOrder) : HasService(d, p) }
RowsOf(st, d) == { r \in Rows(st) : r.device_id \in AllIdentifiers(d) }
ListedAsPaired(st, results, k) ==
  LET e == results[k]
      d == CHOOSE d \in Devices : DevInfo[d].address = e.address
      stored == { r.protocol : r \in RowsOf(st, d) }
  IN /\ \A p \in stored :
          p \in Range(e.paired_protocols) /\ p \notin Range(e.unpaired_services)
     /\ e.paired = (stored # {})
     /\ \A p \in Pairable(d) \ stored : p \in Range(e.unpaired_services)
     /\ st = <<>> => ~e.paired /\ Range(e.unpaired_services) = Pairable(d)
     /\ \A j \in 1..Len(results) : results[j].device_id = e.device_id => j = k
C20_PairedShownAfterPairing ==
  [][\A c \in Conns :
       DiscoverReturn(c) =>
         LET results == out'[c][Len(out'[c])].devices
         IN \A k \in 1..Len(results) :
              results[k].online => ListedAsPaired(store, results, k)]_vars

\* the protocol names of the stored records of the group a device is matched to
GroupProtocols(stored, d) ==
  LET key == MatchingKey(stored, d)
      creds == StoredGroup(stored, key).creds
  IN IF key = NoKey THEN {} ELSE { creds[i].protocol : i \in 1..Len(creds) }
ResultsSent(c) == out'[c][Len(out'[c])].devices

\* C21 as stated: for every online entry of a discovery result, the unpaired
\* protocols are exactly the protocols the device advertises minus the
\* protocol names with a stored record in the matched group.
C21_UnpairedIsAdvertisedMinusPaired ==
  [][\A c \in Conns :
       DiscoverReturn(c) =>
         \A k \in 1..Len(ResultsSent(c)) :
           LET e == ResultsSent(c)[k]
           IN e.online =>
                Range(e.unpaired_services)
                  = Range(e.services) \ GroupProtocols(store, DeviceAt(e.address))]_vars
\* C21 amended: they are exactly the protocols among MRP, AirPlay and
\* Companion that the device advertises and that have no stored record in the
\* matched group, each listed once; the paired protocols are those of the
\* group, so paired and unpaired are disjoint and unpaired is a subset of the
\* advertised protocols.
C21_UnpairedAmended ==
  [][\A c \in Conns :
       DiscoverReturn(c) =>
         \A k \in 1..Len(ResultsSent(c)) :
           LET e == ResultsSent(c)[k]
               paired == GroupProtocols(store, DeviceAt(e.address))
           IN e.online =>
                /\ Range(e.unpaired_services)
                     = (Range(e.services) \cap {"MRP", "AirPlay", "Companion"}) \ paired
                /\ Len(e.unpaired_services) = Cardinality(Range(e.unpaired_services))
                /\ Range(e.paired_protocols) = paired
                /\ Range(e.unpaired_services) \cap Range(e.paired_protocols) = {}
                /\ Range(e.unpaired_services) \subseteq Range(e.services)]_vars
\* a discovery listed the TV with AirPlay paired and Companion unpaired, and
\* the speaker, which advertises RAOP only, with nothing to pair
C21_Witness ==
  \E c \in Conns :
    /\ Len(out[c]) = 1 /\ out[c][1].type = "discovery_results"
    /\ \E k, l \in 1..Len(out[c][1].devices) :
         LET e == out[c][1].devices[k]
             f == out[c][1].devices[l]
         IN /\ e.online /\ e.paired_protocols = << "AirPlay" >>
            /\ e.unpaired_services = << "Companion" >>
            /\ f.online /\ f.services = << "RAOP" >> /\ f.unpaired_services = <<>>

\* C22: the first handshake of a pair_start that names no protocol is the
\* one of the highest protocol, in one fixed priority order, among its
\* candidates, on the chained path (the unpaired services) and on the fallback
\* path alike: no two such pair_starts prefer two protocols in opposite ways.
Unrequested(c) == flow[c].begun # <<>> /\ Cardinality(flow[c].cands) > 1
Prefers(c, p, q) ==
  /\ Unrequested(c)
  /\ flow[c].begun[1] = p
  /\ q \in flow[c].cands \ {p}
C22_OneFixedOrder ==
  \A c, d \in Conns : \A p, q \in ProtocolNames :
    ~(Prefers(c, p, q) /\ Prefers(d, q, p))

\* C23: a connect or a pair_start for an address that is not in the cache is
\* answered with the error event of its handler and does nothing else: the
\* handler is over (no scan, connect or pair call of the provider is awaited),
\* no device handle and no pairing handler is created, and connected_remotes,
\* active_pairings, the cache and the store are as before.
LookupFails(c, a) ==
  \/ /\ HandleConnect(c, a)
     /\ out'[c] = << Ev("error", "Scan first.") >>
  \/ /\ \E p \in RequestedProtocols : HandlePairStart(c, a, p)
     /\ out'[c] = << Ev("error", "Device not found in cache.") >>
C23_NotInCache ==
  [][\A c \in Conns : \A a \in Addresses :
       /\ discovered_devices_cache[a] = NoDev
       /\ HandleConnect(c, a) \/ \E p \in RequestedProtocols : HandlePairStart(c, a, p)
       => /\ LookupFails(c, a)
          /\ pc'[c] = "idle"
          /\ UNCHANGED << connected_remotes, active_pairings, handlers, atvs, listeners,
                          discovered_devices_cache, store >>]_vars
\* a connection that is connected to the TV asked to connect to the address
\* of the speaker, which the last scan did not return
C23_Witness ==
  \E c \in Conns :
    /\ out[c] = << Ev("error", "Scan first.") >>
    /\ discovered_devices_cache = [a \in Addresses |-> IF a = "a1" THEN "TV" ELSE NoDev]
    /\ connected_remotes[c] # 0 /\ atvs[connected_remotes[c]].open

\* the inbound messages of a connection
Dispatched(c) ==
  \/ HandleDiscover(c)
  \/ \E a \in Addresses, p \in RequestedProtocols : HandlePairStart(c, a, p)
  \/ \E pin_ok \in BOOLEAN : HandlePairPin(c, pin_ok)
  \/ \E id \in DeviceIds : HandleDelete(c, id)
  \/ \E a \in Addresses : HandleConnect(c, a)
  \/ HandleDisconnect(c)
Inbound(c) ==
  \/ Dispatched(c)
  \/ \E command \in RemoteCommands : HandleRemoteCmd(c, command)
  \/ MalformedMessage(c)
\* perform_remote_command was called for the command on the handle of c
Forwarded(c, command) ==
  LET atv == connected_remotes[c]
  IN IF command \in VolumeCommands
       THEN atvs'[atv].tasks = Append(atvs[atv].tasks, command)
       ELSE IF command \in KnownCommands
         THEN pc'[c] = "remote" /\ ctx'[c].command = command
         ELSE out'[c] = << Ev("error", "Unknown command") >>

\* C24: a command name with no handler is forwarded to the connected device
\* as a remote-control command if the connection has one, and is answered
\* with a "not connected" error event if it has none.
C24_PassThroughOrNotConnected ==
  [][\A c \in Conns : \A command \in RemoteCommands :
       HandleRemoteCmd(c, command) =>
         IF connected_remotes[c] # 0
           THEN Forwarded(c, command)
           ELSE Len(out'[c]) = 1 /\ out'[c][1].type = "error"]_vars

\* C25: an inbound message whose handling raises (a payload that is not
\* JSON, a discover whose scan raises) is answered with an error event; the
\* connection stays open, its session is kept and its loop is back at
\* receive_text.
HandlingRaises(c) ==
  \/ MalformedMessage(c)
  \/ HandleDiscover(c) /\ pc'[c] = "idle"
C25_RaisingMessageAnswered ==
  [][\A c \in Conns :
       HandlingRaises(c) =>
         /\ Len(out'[c]) = 1 /\ out'[c][1].type = "error"
         /\ wsopen'[c] /\ pc'[c] = "idle"
         /\ UNCHANGED << connected_remotes, active_pairings, atvs, handlers >>]_vars

\* C26: a non-volume command forwarded to the connected device is awaited,
\* and when it is over exactly one event that reports its success or its
\* failure has been sent, before the next message of the connection is
\* handled; a volume command is started as a task and the loop goes on
\* without waiting for the device.
AwaitedOver(c) ==
  \/ RemoteCmdReturn(c)
  \/ /\ \E command \in RemoteCommands \ KnownCommands : HandleRemoteCmd(c, command)
     /\ connected_remotes[c] # 0
C26_ResultReported ==
  [][\A c \in Conns :
       /\ AwaitedOver(c) => Len(out'[c]) = 1 /\ pc'[c] = "idle"
       /\ \A command \in RemoteCommands \cap VolumeCommands :
            HandleRemoteCmd(c, command) /\ connected_remotes[c] # 0
              => /\ pc'[c] = "idle"
                 /\ atvs'[connected_remotes[c]].tasks # <<>>
                 /\ atvs'[connected_remotes[c]].calls = atvs[connected_remotes[c]].calls]_vars

\* C27: the messages of a connection are handled in arrival order: a message
\* is taken only when the handling of the one before is over (no handler of
\* the connection is suspended), and the events of a handler that resumes are
\* added to those of the last message taken.
Resumes(c) == DiscoverReturn(c) \/ PairStartResume(c) \/ RemoteCmdReturn(c)
C27_ArrivalOrder ==
  [][\A c \in Conns :
       /\ Inbound(c) => pc[c] = "idle"
       /\ Resumes(c) => pc[c] # "idle" /\ pc'[c] = "idle" /\ ncmds' = ncmds
       /\ pc[c] # "idle" /\ out'[c] # out[c] => Resumes(c) /\ IsPrefix(out[c], out'[c])]_vars
\* c1 handled play_pause, which the TV executed, and then a discover, which
\* was answered
C27_Witness ==
  /\ atvs[1].calls = << "play_pause" >>
  /\ pc[Remote] = "idle"
  /\ Len(out[Remote]) = 1 /\ out[Remote][1].type = "discovery_results"

\* a pass of listener l sends its event in this step, built from the sample
\* Sent(l).ps and the app Sent(l).app
SendsAfterFetch(l) ==
  \E i \in 1..Len(passes) : passes[i].l = l /\ PassArtwork(i)
SendsAtOnce(l) ==
  /\ passes' = passes
  /\ \/ PlaystatusUpdate(l)
     \/ PollTick(l) /\ listeners'[l].tick.outcome = "pass"
     \/ InitialFetch(l) /\ listeners'[l].emitted # listeners[l].emitted
Sends(l) == wsopen[atvs[l].conn] /\ (SendsAfterFetch(l) \/ SendsAtOnce(l))
Sent(l) ==
  IF SendsAfterFetch(l)
    THEN LET i == CHOOSE i \in 1..Len(passes) : passes[i].l = l /\ PassArtwork(i)
         IN [ps |-> passes[i].ps, app |-> passes[i].current_app]
    ELSE [ps |-> Sample(media), app |-> CurrentApp(l)]
ChainTitle(ps, app) ==
  IF ps.title # None THEN ps.title
  ELSE IF app # None THEN Watching(app) ELSE "Not Playing"
ChainArtist(ps) ==
  IF ps.artist # None THEN ps.artist
  ELSE IF ps.album # None THEN ps.album ELSE "Apple TV"

\* C28 as stated: in every now-playing event the title is the reported title,
\* else "Watching <app>" if an app is known, else "Not Playing", and the
\* artist is the reported artist, else the album, else "Apple TV".
C28_DisplayFallback ==
  [][\A l \in 1..Len(listeners) :
       Sends(l) =>
         /\ listeners'[l].emitted.title = ChainTitle(Sent(l).ps, Sent(l).app)
         /\ listeners'[l].emitted.artist = ChainArtist(Sent(l).ps)]_vars
\* C28 amended: the title is as stated; the artist is the reported artist,
\* else the album, else "Apple TV" when a title is reported, and "Apple TV"
\* when none is (whatever artist and album the device reports).
C28_DisplayFallbackAmended ==
  [][\A l \in 1..Len(listeners) :
       Sends(l) =>
         /\ listeners'[l].emitted.title = ChainTitle(Sent(l).ps, Sent(l).app)
         /\ listeners'[l].emitted.artist =
              (IF Sent(l).ps.title # None THEN ChainArtist(Sent(l).ps) ELSE "Apple TV")
         /\ listeners'[l].emitted.album = Sent(l).ps.album
         /\ listeners'[l].emitted.app = Sent(l).app]_vars
\* an event for an app that plays an album without a title
C28_Witness ==
  \E l \in 1..Len(listeners) :
    /\ listeners[l].emitted.title = "Watching app1"
    /\ listeners[l].emitted.artist = "Apple TV"
    /\ listeners[l].emitted.album = "al"

\* C29: in a discovery result every stored group that no scanned device
\* matches (by a shared identifier, or by address and name when the device
\* shares no identifier with any group) is exactly one offline entry
\* (online = false, paired = true, no services, nothing unpaired, the stored
\* protocols of the group as paired_protocols), and a group that a scanned
\* device matches is no offline entry.
SharesId(stored, key, d) == StoredGroup(stored, key).ids \cap AllIdentifiers(d) # {}
Matches(stored, key, d) ==
  \/ SharesId(stored, key, d)
  \/ /\ \A k \in Range(GroupKeys(stored)) : ~SharesId(stored, k, d)
     /\ key = << DevInfo[d].address, DevInfo[d].name >>
OfflineEntries(results, key) ==
  { k \in 1..Len(results) :
      ~results[k].online /\ results[k].address = key[1] /\ results[k].name = key[2] }
IsOfflineEntryOf(e, info) ==
  /\ e.paired /\ e.services = <<>> /\ e.unpaired_services = <<>>
  /\ e.paired_protocols = [i \in 1..Len(info.creds) |-> info.creds[i].protocol]
  /\ e.device_id \in info.ids
C29_OfflineEntries ==
  [][\A c \in Conns :
       DiscoverReturn(c) =>
         \A key \in Range(GroupKeys(store)) :
           LET offline == OfflineEntries(ResultsSent(c), key)
           IN IF \E d \in Range(ctx[c].scan) : Matches(store, key, d)
                THEN offline = {}
                ELSE /\ Cardinality(offline) = 1
                     /\ \A k \in offline :
                          IsOfflineEntryOf(ResultsSent(c)[k], StoredGroup(store, key))]_vars

\* C30: saving the credentials of protocol A of device D leaves every stored
\* record of D for another protocol, and every record of another device, as
\* it was: the records other than (D, A) are the same before and after.
OtherRecords(st, device_id, protocol) ==
  { e \in Range(st) : ~(e.device_id = device_id /\ e.protocol = protocol) }
C30_SaveFrame ==
  [][\A device_id \in DeviceIds, protocol \in DbProtocols, credentials \in DbCredentials :
       \A na \in DbNames(device_id) :
         DbSave(device_id, protocol, na, credentials) =>
           /\ OtherRecords(store', device_id, protocol) = OtherRecords(store, device_id, protocol)
           /\ Cardinality(OtherRecords(store', device_id, protocol)) = Len(store') - 1]_vars
\* the record of Companion of i1 was saved last, renewed, into a table that
\* has the record of AirPlay of i1 and a record of i3
C30_Witness ==
  /\ Len(store) = 3
  /\ store[3].device_id = "i1" /\ store[3].protocol = "Companion"
  /\ store[3].credentials = << "renewed", "Companion" >>
  /\ \E i \in 1..2 : store[i].device_id = "i1" /\ store[i].protocol = "AirPlay"
  /\ \E i \in 1..2 : store[i].device_id = "i3"

\* C31: handling delete_device for device_id d removes every stored record
\* of d and nothing else (the records of other device_ids and the favourite
\* apps are as they were), and the discovery result sent afterwards lists no
\* paired protocol that stems from a record of d.
DeleteLeaves(st0, st1, d) ==
  /\ \A i \in 1..Len(st1) : st1[i].device_id # d
  /\ st1 = SelectSeq(st0, LAMBDA e : e.device_id # d)
EntryGroup(e, st) ==
  IF e.online THEN MatchingKey(st, DeviceAt(e.address)) ELSE << e.address, e.name >>
FromRecordsOf(e, st, d) ==
  { p \in Range(e.paired_protocols) :
      \E i \in 1..Len(st) :
        /\ st[i].device_id = d /\ st[i].protocol = p
        /\ GroupKey(st[i]) = EntryGroup(e, st) }
EndsDelete(c) == DiscoverReturn(c) /\ pc[c] = "delete_device"
C31_DeleteRemovesDevice ==
  [][\A c \in Conns :
       /\ \A d \in DeviceIds :
            HandleDelete(c, d) =>
              DeleteLeaves(store, store', d) /\ favourite_apps' = favourite_apps
       /\ EndsDelete(c) =>
            \A k \in 1..Len(ResultsSent(c)) :
              FromRecordsOf(ResultsSent(c)[k], store, ctx[c].device_id) = {}]_vars
\* C31 as it holds: the delete removes the records of d and nothing else, a
\* record of d can only come back by a pair_pin that finishes a handshake
\* while the scan of the delete is awaited, and the discovery result lists
\* the paired protocols of the records stored when the scan returns.
RecordsOf(st, d) == { r \in Range(st) : r.device_id = d }
SavesRecord ==
  \E c \in Conns :
    /\ HandlePairPin(c, TRUE)
    /\ Len(flow'[c].saved) = Len(flow[c].saved) + 1
ListedFromStore(e, st) ==
  Range(e.paired_protocols) =
    { st[i].protocol : i \in { j \in 1..Len(st) : GroupKey(st[j]) = EntryGroup(e, st) } }
C31_DeleteRemovesStored ==
  [][\A c \in Conns :
       /\ \A d \in DeviceIds :
            HandleDelete(c, d) =>
              DeleteLeaves(store, store', d) /\ favourite_apps' = favourite_apps
       /\ pc[c] = "delete_device" =>
            /\ favourite_apps' = favourite_apps
            /\ RecordsOf(store', ctx[c].device_id) \subseteq RecordsOf(store, ctx[c].device_id)
                 \/ SavesRecord
       /\ EndsDelete(c) =>
            \A k \in 1..Len(ResultsSent(c)) : ListedFromStore(ResultsSent(c)[k], store)]_vars
\* the connection paired the TV in this run, deleted it, and was sent a
\* result that lists the TV online and not paired
C31_Witness ==
  \E c \in Conns :
    /\ flow[c].saved # <<>> /\ store = <<>> /\ favourite_apps # {}
    /\ pc[c] = "idle" /\ Len(out[c]) = 1 /\ out[c][1].type = "discovery_results"
    /\ \E k \in 1..Len(out[c][1].devices) :
         LET e == out[c][1].devices[k]
         IN e.device_id = "i1" /\ e.online /\ ~e.paired

\* C32: sessions are isolated: no command, disconnect or cleanup handled for
\* a connection adds, removes or changes the device handle, the snapshot of
\* the listener or the pairing session (entry and handler) of another one.
NoHandle == [conn |-> None]
SessionOf(c) ==
  [remote |-> connected_remotes[c],
   handle |-> IF connected_remotes[c] # 0 THEN atvs[connected_remotes[c]] ELSE NoHandle,
   snapshot |-> IF connected_remotes[c] # 0 THEN listeners[connected_remotes[c]]
                ELSE NewListener,
   pairing |-> active_pairings[c],
   handler |-> IF active_pairings[c] # NoSession THEN handlers[active_pairings[c].handler]
               ELSE NoHandle]
HandledFor(c) ==
  \/ HandleDiscover(c) \/ DiscoverReturn(c) \/ PairStartResume(c)
  \/ \E a \in Addresses, p \in RequestedProtocols : HandlePairStart(c, a, p)
  \/ \E pin_ok \in BOOLEAN : HandlePairPin(c, pin_ok)
  \/ \E id \in DeviceIds : HandleDelete(c, id)
  \/ \E a \in Addresses : HandleConnect(c, a)
  \/ HandleDisconnect(c) \/ WebSocketDisconnect(c)
C32_SessionsIsolated ==
  [][\A c1 \in Conns, c2 \in Conns :
       (c1 # c2 /\ HandledFor(c1)) => SessionOf(c2)' = SessionOf(c2)]_vars
\* a connection was closed and its device handle with it, while another holds
\* an open device handle and a handshake that was begun
C32_Witness ==
  \E c1 \in Conns, c2 \in Conns :
    /\ c1 # c2 /\ ~wsopen[c1]
    /\ \E a \in 1..Len(atvs) : atvs[a].conn = c1 /\ ~atvs[a].open
    /\ connected_remotes[c2] # 0 /\ atvs[connected_remotes[c2]].open
    /\ active_pairings[c2] # NoSession
    /\ handlers[active_pairings[c2].handler].st = "begun"

\* C33: every pairing handler that was begun is closed once its handshake is
\* over: none is left failed or finished without a close(), and a connection
\* that was cleaned up leaves none of its handlers unclosed.
HandshakeOver(h) == handlers[h].st \in {"failed", "finished"}
C33_BegunHandlersClosed ==
  \A h \in 1..Len(handlers) :
    /\ HandshakeOver(h) => handlers[h].closes > 0
    /\ ~wsopen[handlers[h].conn] => handlers[h].closes > 0

\* C34: the entry a connection has in active_pairings is consistent: its
\* handler is a handshake of that connection that was begun and is not
\* finished, for the current_proto of the entry at the address of the entry
\* (also after the start of the next protocol of a chain failed).
ConsistentEntry(c) ==
  LET session == active_pairings[c]
      h == handlers[session.handler]
  IN /\ h.conn = c
     /\ h.st \in {"begun", "failed"}
     /\ h.protocol = session.current_proto
     /\ h.address = session.address
C34_EntryConsistent ==
  \A c \in Conns : active_pairings[c] # NoSession => ConsistentEntry(c)

\* C35: no provider call is made on a device handle after it was closed: the
\* task of a volume command, a pass started by a push update, a poll tick and
\* initial_fetch only run on a handle that is open.
CallsProvider(a) ==
  VolumeTask(a) \/ PlaystatusUpdate(a) \/ PollTick(a) \/ InitialFetch(a)
C35_NoCallAfterClose ==
  [][\A a \in 1..Len(atvs) : CallsProvider(a) => atvs[a].open]_vars

\* C36: when no pass of a listener is in flight, its snapshot and the last
\* event it sent are those of the status sample it received last (the one
\* its last pass was started with), however the passes were interleaved.
Settled(l) ==
  /\ PassesInFlight(l) = {}
  /\ listeners[l].received # NoSample
  /\ atvs[l].open /\ wsopen[atvs[l].conn]
C36_SnapshotOfLastSample ==
  \A l \in 1..Len(listeners) :
    Settled(l) =>
      LET lst == listeners[l]
      IN /\ lst.last_title = lst.received.title
         /\ lst.last_device_state = Lower(lst.received.device_state)
         /\ lst.emitted.title = DisplayTitle(lst.received, lst.emitted.app)
         /\ lst.emitted.device_state = Lower(lst.received.device_state)

\* C37: the step of every 'started' pairing status tells whether more
\* handshakes follow: it is "final" exactly when the queue that remains after
\* the protocol was taken from it is empty, and "next" otherwise.
StartsHandshake(c) ==
  /\ \/ PairStartResume(c)
     \/ \E a \in Addresses, p \in RequestedProtocols : HandlePairStart(c, a, p)
     \/ HandlePairPin(c, TRUE)
  /\ out'[c] # <<>>
  /\ out'[c][Len(out'[c])].info = "started"
C37_StepTellsWhatFollows ==
  [][\A c \in Conns :
       StartsHandshake(c) =>
         LET ev == out'[c][Len(out'[c])]
         IN /\ ev.step \in {"final", "next"}
            /\ ev.step = "final" <=> active_pairings'[c].queue = <<>>]_vars
====
